---- MODULE Spec2Model ----
(***************************************************************************)
(* A model of manager.py, the plugin runtime of Media-Manager-n8n-Node:    *)
(* discovery of subcommands, per-subcommand virtual environments, orphan   *)
(* cleanup, and the dispatch of a subcommand as a child process.           *)
(*                                                                         *)
(* Strings the program takes apart (file names, subcommand names, argv[1]) *)
(* are sequences of one-character strings.  Output streams are sequences   *)
(* of tokens (strings); stderr is a sequence of message tags.              *)
(***************************************************************************)
EXTENDS Integers, Sequences, FiniteSets, TLC

Procs == {1, 2}

(* ---------------- strings ---------------- *)
DotPy     == <<".", "p", "y">>
Underscore == <<"_">>
CmdList   == <<"l", "i", "s", "t">>
CmdUpdate == <<"u", "p", "d", "a", "t", "e">>

NameA == <<"a">>
NameB == <<"b">>
NameReserved == <<"_", "c">>

FileA        == NameA \o DotPy
FileB        == NameB \o DotPy
FileReserved == NameReserved \o DotPy
FileOther    == <<"n", ".", "t", "x", "t">>

\* entries that may be present in SUBCOMMANDS_DIR
FileNames == {FileA, FileB, FileReserved, FileOther}
\* entries that may be present in SUBCOMMAND_ENVS_DIR and SUBCOMMAND_TOOLS_DIR
DirNames  == {NameA, NameB}
\* subcommand names a caller may ask for
RunNames  == {NameA, NameB, NameReserved}

EndsWith(s, suffix) ==
    /\ Len(s) >= Len(suffix)
    /\ SubSeq(s, Len(s) - Len(suffix) + 1, Len(s)) = suffix

StartsWith(s, prefix) ==
    /\ Len(s) >= Len(prefix)
    /\ SubSeq(s, 1, Len(prefix)) = prefix

\* fname[:-3]
StripExt(fname) == SubSeq(fname, 1, Len(fname) - Len(DotPy))

(* ---------------- the content of a subcommand file ---------------- *)
\* load: what executing the module does: "ok" (it defines attrs), "raise"
\* (an Exception: syntax error, failed import), "exit" (SystemExit, e.g. a
\* script without a __main__ guard that calls sys.exit()).
NoAttrs == [a \in {} |-> <<>>]
ModPlain == [load |-> "ok", attrs |-> NoAttrs]
ModDeps  == [load |-> "ok",
             attrs |-> [REQUIRES |-> <<"pkg">>, INPUT_SCHEMA |-> <<"field">>]]
ModRaise == [load |-> "raise", attrs |-> NoAttrs]
ModExit  == [load |-> "exit", attrs |-> NoAttrs]
Modules  == {ModPlain, ModDeps, ModRaise, ModExit}

\* the SUBCOMMANDS_DIR contents the model starts from: a.py and b.py are each
\* absent or one of three modules; the reserved file and the file that is
\* not a .py file are always there
Absent == [load |-> "absent", attrs |-> NoAttrs]
ToolDirs ==
    {[f \in {g \in FileNames : g \notin {FileA, FileB}
                                \/ (g = FileA /\ a # Absent)
                                \/ (g = FileB /\ b # Absent)} |->
         IF f = FileA THEN a ELSE IF f = FileB THEN b ELSE ModDeps] :
       a \in {Absent, ModDeps, ModRaise, ModExit},
       b \in {Absent, ModPlain, ModDeps, ModRaise}}

\* getattr(mod, name, default)
GetAttr(mod, name, default) ==
    IF name \in DOMAIN mod.attrs THEN mod.attrs[name] ELSE default

(* ---------------- virtual environments on disk ---------------- *)
EnvAbsent == [exists |-> FALSE, python |-> FALSE, pip |-> FALSE, pkgs |-> {}]
EnvEmpty  == [exists |-> TRUE,  python |-> FALSE, pip |-> FALSE, pkgs |-> {}]
EnvNoPip  == [exists |-> TRUE,  python |-> TRUE,  pip |-> FALSE, pkgs |-> {}]
EnvReady  == [exists |-> TRUE,  python |-> TRUE,  pip |-> TRUE,  pkgs |-> {}]
\* a damaged environment: pip answers, bin/python is gone
EnvNoPython == [exists |-> TRUE, python |-> FALSE, pip |-> TRUE, pkgs |-> {}]

(* ---------------- command lines ---------------- *)
\* argv[2] of the manager, described by what the code can find out about it
ArgJson     == [kind |-> "json", doc |-> "D1"]       \* a JSON string
ArgJsonFile == [kind |-> "jsonfile", doc |-> "D2"]   \* path of a readable .json file
ArgBadFile  == [kind |-> "badjsonfile", doc |-> ""]  \* path of a .json file that does not parse
ArgPath     == [kind |-> "path", doc |-> ""]         \* any other text
InputArgs   == {ArgJson, ArgJsonFile, ArgBadFile, ArgPath}

\* sys.argv[1:]
Argvs ==
    {<<>>, <<CmdList>>, <<CmdUpdate>>}
      \cup {<<n>> : n \in RunNames}
      \cup {<<n, a>> : n \in RunNames, a \in InputArgs}

\* sys.argv[1:] of the invocations that run at the same time
ConcArgvs == {<<CmdList>>, <<CmdUpdate>>, <<NameA>>, <<NameB>>}

\* what the child can write and how it can end
NL == "\n"
CR == "\r"
ChildResults ==
    {[code |-> 0, out |-> <<"{}">>,         err |-> <<>>],
     [code |-> 0, out |-> <<"{}", CR, NL>>, err |-> <<"log">>],
     [code |-> 0, out |-> <<>>,             err |-> <<>>],
     [code |-> 1, out |-> <<>>,             err |-> <<"boom">>],
     [code |-> 1, out |-> <<"partial">>,    err |-> <<>>]}

VARIABLES
    toolsDirExists, \* os.path.exists(SUBCOMMANDS_DIR)
    tools,          \* SUBCOMMANDS_DIR: file name -> module
    envs,           \* SUBCOMMAND_ENVS_DIR: name -> environment
    storage,        \* SUBCOMMAND_TOOLS_DIR: name -> the folder exists
    pc,             \* where each invocation of manager.py is
    argv,           \* its sys.argv[1:]
    input_data,     \* main's input_data
    subcommands,    \* the dict discover_subcommands returned
    local,          \* locals of run_subcommand and of main's update loop
    child,          \* the subprocess of subprocess.run in run_subcommand
    stdout,         \* what the invocation wrote to sys.stdout
    stderr,         \* what it wrote to sys.stderr
    exitcode,       \* its exit status
    calls,          \* history: the calls made by the invocation, in order
    reclaimed,      \* history: the last run of cleanup_orphaned_files
    tool,           \* a bundled tool run as a script: its inputs, output, exit
    combine,        \* combine_audio.main: the items it normalises
    video           \* analyze_video_hierarchically: the keyframe loop

fs   == <<toolsDirExists, tools, envs, storage>>
\* the state of the manager, and the state of the bundled tools
mvars == <<toolsDirExists, tools, envs, storage, pc, argv, input_data,
           subcommands, local, child, stdout, stderr, exitcode, calls,
           reclaimed>>
tvars == <<tool, combine, video>>
vars == <<mvars, tvars>>

(* ---------------- dicts that keep insertion order ---------------- *)
\* a dict is a sequence of <<key, value>> without repeated keys
Keys(d) == {d[i][1] : i \in 1..Len(d)}
Has(d, k) == k \in Keys(d)
Get(d, k) == d[CHOOSE i \in 1..Len(d) : d[i][1] = k][2]
Put(d, k, v) ==
    IF Has(d, k)
    THEN [i \in 1..Len(d) |-> IF d[i][1] = k THEN <<k, v>> ELSE d[i]]
    ELSE Append(d, <<k, v>>)

\* "error" in subcommands[name]
HasError(desc) == "error" \in DOMAIN desc
\* subcommand_metadata.get("requires", [])
RequiresOf(desc) == IF "requires" \in DOMAIN desc THEN desc.requires ELSE <<>>

(* ---------------- discover_subcommands ---------------- *)
\* os.listdir returns the entries in arbitrary order
RECURSIVE Listings(_)
Listings(S) ==
    IF S = {} THEN {<<>>}
    ELSE UNION {{<<f>> \o rest : rest \in Listings(S \ {f})} : f \in S}

\* the loop of discover_subcommands from entry i of the listing on
RECURSIVE LoadFrom_DropsBroken(_, _, _, _)
LoadFrom_DropsBroken(listing, i, found, err) ==
    IF i > Len(listing)
    THEN [subcommands |-> found, stderr |-> err, exited |-> FALSE]
    ELSE LET fname == listing[i] IN
         IF EndsWith(fname, DotPy) /\ ~StartsWith(fname, Underscore)
         THEN LET name == StripExt(fname)
                  mod  == tools[fname]
              IN  CASE mod.load = "ok" ->
                         LoadFrom_DropsBroken(listing, i + 1,
                                  Put(found, name,
                                      [input_schema |-> GetAttr(mod, "INPUT_SCHEMA", <<>>),
                                       requires     |-> GetAttr(mod, "REQUIRES", <<>>)]),
                                  err)
                    [] mod.load = "raise" ->
                         LoadFrom_DropsBroken(listing, i + 1, found,
                                  Append(err, <<"Error loading subcommand">> \o name))
                    [] OTHER ->
                         [subcommands |-> found, stderr |-> err, exited |-> TRUE]
         ELSE LoadFrom_DropsBroken(listing, i + 1, found, err)

RECURSIVE LoadFrom(_, _, _, _)
LoadFrom(listing, i, found, err) ==
    IF i > Len(listing)
    THEN [subcommands |-> found, stderr |-> err, exited |-> FALSE]
    ELSE LET fname == listing[i] IN
         IF EndsWith(fname, DotPy) /\ ~StartsWith(fname, Underscore)
         THEN LET name == StripExt(fname)
                  mod  == tools[fname]
              IN  CASE mod.load = "ok" ->
                         LoadFrom(listing, i + 1,
                                  Put(found, name,
                                      [input_schema |-> GetAttr(mod, "INPUT_SCHEMA", <<>>),
                                       requires     |-> GetAttr(mod, "REQUIRES", <<>>)]),
                                  err)
                    [] mod.load = "raise" ->
                         LoadFrom(listing, i + 1,
                                  Put(found, name, [error |-> "Error loading"]),
                                  Append(err, <<"Error loading subcommand">> \o name))
                    [] OTHER ->
                         \* SystemExit is not an Exception: it leaves the loop
                         [subcommands |-> found, stderr |-> err, exited |-> TRUE]
         ELSE LoadFrom(listing, i + 1, found, err)

\* discover_subcommands() for one order of os.listdir
discover_subcommands_NoBootstrap(listing) ==
    IF ~toolsDirExists
    THEN [subcommands |-> <<>>,
          stderr |-> << <<"Traceback", "FileNotFoundError">> >>,
          exited |-> TRUE]
    ELSE LoadFrom(listing, 1, <<>>, <<>>)

discover_subcommands(listing) ==
    IF ~toolsDirExists
    THEN [subcommands |-> <<>>,
          stderr |-> << <<"Warning: Subcommands directory not found">> >>,
          exited |-> FALSE]
    ELSE LoadFrom(listing, 1, <<>>, <<>>)

(* ---------------- json.dumps ---------------- *)
RECURSIVE DumpList(_, _)
DumpList(xs, i) ==
    IF i > Len(xs) THEN <<>>
    ELSE (IF i > 1 THEN <<", ">> ELSE <<>>) \o <<"\"", xs[i], "\"">> \o DumpList(xs, i + 1)

DumpDesc(desc) ==
    IF HasError(desc)
    THEN <<"{", "\"error\"", ": ", "\"", desc.error, "\"", "}">>
    ELSE <<"{", "\"input_schema\"", ": ", "[">> \o DumpList(desc.input_schema, 1)
           \o <<"]", ", ", "\"requires\"", ": ", "[">> \o DumpList(desc.requires, 1)
           \o <<"]", "}">>

RECURSIVE DumpEntries(_, _)
DumpEntries(d, i) ==
    IF i > Len(d) THEN <<>>
    ELSE (IF i > 1 THEN <<", ">> ELSE <<>>)
           \o <<"\"">> \o d[i][1] \o <<"\"", ": ">> \o DumpDesc(d[i][2])
           \o DumpEntries(d, i + 1)

\* json.dumps(subcommands)
DumpSubcommands_NoFailed(d) ==
    LET Loaded(e) == ~HasError(e[2])
    IN  <<"{">> \o DumpEntries(SelectSeq(d, Loaded), 1) \o <<"}">>

\* json.dumps(subcommands)
DumpSubcommands(d) == <<"{">> \o DumpEntries(d, 1) \o <<"}">>

\* print(x) on a text stream: x and a newline
PrintTo(stream, x) == stream \o x \o <<NL>>

(* ---------------- state of an invocation ---------------- *)
\* an entry of the history of calls
Call(fn, name, result) == [fn |-> fn, name |-> name, result |-> result]

NoExe   == [kind |-> "none", name |-> <<>>]
\* sys.executable, the interpreter that runs the manager
HostExe == [kind |-> "host", name |-> <<>>]
NoLocal == [name |-> <<>>, requires |-> <<>>, python_exe |-> NoExe,
            todo |-> <<>>, subcommand_names |-> {}, cleaned_count |-> 0]
NoChild == [state |-> "none", exe |-> NoExe, args |-> <<>>, stdin |-> "none",
            tool_path |-> <<>>, out |-> <<>>, err |-> <<>>, code |-> 0]
NoInput == <<"none">>
\* no cleanup_orphaned_files has run yet
NoReclaim == [ran |-> FALSE, names |-> {}, clean |-> TRUE, again |-> FALSE]
\* no bundled tool is being run on its own
NoTool    == [pc |-> "off"]
NoCombine == [pc |-> "off"]
NoVideo   == [pc |-> "off"]
ToolsOff  == tool = NoTool /\ combine = NoCombine /\ video = NoVideo

Init ==
    /\ toolsDirExists \in BOOLEAN
    /\ tools \in (IF toolsDirExists THEN ToolDirs ELSE {NoAttrs})
    /\ envs \in {[n \in DirNames |-> IF n = NameA THEN a ELSE b] :
                   a \in {EnvAbsent, EnvReady, EnvNoPython},
                   b \in {EnvAbsent, EnvReady}}
    /\ storage \in [DirNames -> BOOLEAN]
    /\ pc = [p \in Procs |-> IF p = 1 THEN "idle" ELSE "off"]
    /\ argv = [p \in Procs |-> <<>>]
    /\ input_data = [p \in Procs |-> NoInput]
    /\ subcommands = [p \in Procs |-> <<>>]
    /\ local = [p \in Procs |-> NoLocal]
    /\ child = [p \in Procs |-> NoChild]
    /\ stdout = [p \in Procs |-> <<>>]
    /\ stderr = [p \in Procs |-> <<>>]
    /\ exitcode = [p \in Procs |-> 0]
    /\ calls = [p \in Procs |-> <<>>]
    /\ reclaimed = NoReclaim
    /\ ToolsOff

(* ---------------- main: the command-line router ---------------- *)
\* the process ends: main returned (code 0) or an exception left it
Exit(p, code) ==
    /\ pc' = [pc EXCEPT ![p] = "done"]
    /\ exitcode' = [exitcode EXCEPT ![p] = code]

\* lines 226-248: input_data from sys.argv[2]
ParseInput(av) ==
    IF Len(av) < 2 THEN [ok |-> TRUE, data |-> <<"dict">>]
    ELSE LET a == av[2] IN
         CASE a.kind = "json"        -> [ok |-> TRUE, data |-> <<"doc", a.doc>>]
           [] a.kind = "jsonfile"    -> [ok |-> TRUE, data |-> <<"doc", a.doc>>]
           [] a.kind = "badjsonfile" -> [ok |-> FALSE, data |-> NoInput]
           [] OTHER                  -> [ok |-> TRUE, data |-> <<"file_path", "arg">>]

\* main() up to its first call of discover_subcommands, for sys.argv[1:] = av
StartWith(p, av) ==
    /\ UNCHANGED tvars
    /\ argv' = [argv EXCEPT ![p] = av]
    /\ subcommands' = [subcommands EXCEPT ![p] = <<>>]
    /\ local' = [local EXCEPT ![p] = NoLocal]
    /\ child' = [child EXCEPT ![p] = NoChild]
    /\ stdout' = [stdout EXCEPT ![p] = <<>>]
    /\ calls' = [calls EXCEPT ![p] = <<>>]
    /\ IF Len(av) < 1
       THEN /\ stderr' = [stderr EXCEPT ![p] = << <<"Usage">>, <<"Available commands">> >>]
            /\ input_data' = [input_data EXCEPT ![p] = NoInput]
            /\ Exit(p, 0)
       ELSE IF av[1] = CmdList
       THEN /\ stderr' = [stderr EXCEPT ![p] = <<>>]
            /\ input_data' = [input_data EXCEPT ![p] = NoInput]
            /\ pc' = [pc EXCEPT ![p] = "discover"]
            /\ exitcode' = [exitcode EXCEPT ![p] = 0]
       ELSE IF av[1] = CmdUpdate
       THEN /\ stderr' = [stderr EXCEPT ![p] = << <<"--- Running Full System Update and Cleanup ---">> >>]
            /\ input_data' = [input_data EXCEPT ![p] = NoInput]
            /\ pc' = [pc EXCEPT ![p] = "discover"]
            /\ exitcode' = [exitcode EXCEPT ![p] = 0]
       ELSE LET parsed == ParseInput(av) IN
            IF parsed.ok
            THEN /\ stderr' = [stderr EXCEPT ![p] = <<>>]
                 /\ input_data' = [input_data EXCEPT ![p] = parsed.data]
                 /\ pc' = [pc EXCEPT ![p] = "discover"]
                 /\ exitcode' = [exitcode EXCEPT ![p] = 0]
            ELSE /\ stderr' = [stderr EXCEPT ![p] = << <<"ERROR: Could not read or parse JSON file">> >>]
                 /\ input_data' = [input_data EXCEPT ![p] = NoInput]
                 /\ Exit(p, 0)
    /\ UNCHANGED <<fs, reclaimed>>

\* an invocation of manager.py begins; invocations of one caller follow each other
Start(p) ==
    /\ pc[p] \in {"idle", "done"}
    /\ \E av \in Argvs : StartWith(p, av)

\* the invocations of two callers, at the same time
StartConc(p) ==
    /\ pc[p] \in {"idle", "done"}
    /\ \E av \in ConcArgvs : StartWith(p, av)

\* where main goes once discover_subcommands has returned
AfterDiscover_SkipsCleanup(av) ==
    IF av[1] = CmdList THEN "list_print"
    ELSE IF av[1] = CmdUpdate THEN "update_loop"
    ELSE "resolve"

AfterDiscover(av) ==
    IF av[1] = CmdList THEN "list_print"
    ELSE IF av[1] = CmdUpdate THEN "cleanup"
    ELSE "resolve"

\* the call of discover_subcommands() at lines 207, 213 and 138
Discover(p) ==
    /\ UNCHANGED tvars
    /\ pc[p] = "discover"
    /\ \E listing \in Listings(DOMAIN tools) :
         LET r == discover_subcommands(listing) IN
         /\ toolsDirExists' = TRUE
         /\ stderr' = [stderr EXCEPT ![p] = @ \o r.stderr]
         /\ calls' = [calls EXCEPT ![p] = Append(@, Call("discover_subcommands", <<>>, ""))]
         /\ IF r.exited
            THEN /\ Exit(p, 1)
                 /\ UNCHANGED subcommands
            ELSE /\ subcommands' = [subcommands EXCEPT ![p] = r.subcommands]
                 /\ pc' = [pc EXCEPT ![p] = AfterDiscover(argv[p])]
                 /\ UNCHANGED exitcode
    /\ UNCHANGED <<tools, envs, storage, argv, input_data, local, child, stdout, reclaimed>>

\* line 209: print(json.dumps(subcommands))
ListPrint(p) ==
    /\ UNCHANGED tvars
    /\ pc[p] = "list_print"
    /\ stdout' = [stdout EXCEPT ![p] = PrintTo(@, DumpSubcommands(subcommands[p]))]
    /\ Exit(p, 0)
    /\ UNCHANGED <<fs, argv, input_data, subcommands, local, child, stderr, calls, reclaimed>>

(* ---------------- create_environment ---------------- *)
IsUpdate(p) == argv[p][1] = CmdUpdate

\* where the caller goes when create_environment or install_dependencies
\* returned False: run_subcommand returns (line 151), the loop of update goes on
AfterProvisionFailed_Retries(p) ==
    IF IsUpdate(p)
    THEN /\ pc' = [pc EXCEPT ![p] = "update_loop"]
         /\ UNCHANGED exitcode
    ELSE /\ pc' = [pc EXCEPT ![p] = "create_environment"]
         /\ UNCHANGED exitcode

AfterProvisionFailed(p) ==
    IF IsUpdate(p)
    THEN /\ pc' = [pc EXCEPT ![p] = "update_loop"]
         /\ UNCHANGED exitcode
    ELSE Exit(p, 0)

\* lines 90-96: the existence test, and the start of "python -m venv"
CreateCheck_AlwaysCreates(p) ==
    /\ UNCHANGED tvars
    /\ pc[p] = "create_environment"
    /\ pc' = [pc EXCEPT ![p] = "venv"]
    /\ stderr' = [stderr EXCEPT ![p] =
                    Append(@, <<"Creating new virtual environment">>)]
    /\ UNCHANGED <<fs, argv, input_data, subcommands, local, child, stdout, exitcode,
                   calls, reclaimed>>

CreateCheck(p) ==
    /\ UNCHANGED tvars
    /\ pc[p] = "create_environment"
    /\ IF envs[local[p].name].exists
       THEN /\ pc' = [pc EXCEPT ![p] = "install_dependencies"]
            /\ calls' = [calls EXCEPT ![p] =
                            Append(@, Call("create_environment", local[p].name, "True"))]
            /\ UNCHANGED stderr
       ELSE /\ pc' = [pc EXCEPT ![p] = "venv"]
            /\ stderr' = [stderr EXCEPT ![p] =
                            Append(@, <<"Creating new virtual environment">>)]
            /\ UNCHANGED calls
    /\ UNCHANGED <<fs, argv, input_data, subcommands, local, child, stdout, exitcode, reclaimed>>

\* line 96: subprocess.run cannot start the interpreter (OSError); only
\* CalledProcessError is caught, so the exception leaves main
VenvSpawnError(p) ==
    /\ UNCHANGED tvars
    /\ pc[p] = "venv"
    /\ stderr' = [stderr EXCEPT ![p] = Append(@, <<"Traceback", "OSError">>)]
    /\ Exit(p, 1)
    /\ UNCHANGED <<fs, argv, input_data, subcommands, local, child, stdout, calls, reclaimed>>

\* "python -m venv env_path" makes the directory first
VenvMkdir(p) ==
    /\ UNCHANGED tvars
    /\ pc[p] = "venv"
    /\ envs' = [envs EXCEPT ![local[p].name] = IF @.exists THEN @ ELSE EnvEmpty]
    /\ pc' = [pc EXCEPT ![p] = "venv_running"]
    /\ UNCHANGED <<toolsDirExists, tools, storage, argv, input_data, subcommands,
                   local, child, stdout, stderr, exitcode, calls, reclaimed>>

\* lines 96-102: venv ends; check=True turns a non-zero exit into
\* CalledProcessError, and what it made of the directory stays
VenvFinish(p) ==
    /\ UNCHANGED tvars
    /\ pc[p] = "venv_running"
    /\ LET n == local[p].name IN
       \/ /\ envs' = [envs EXCEPT ![n] = [EnvReady EXCEPT !.pkgs = envs[n].pkgs]]
          /\ stderr' = [stderr EXCEPT ![p] = Append(@, <<"+ Environment created successfully.">>)]
          /\ calls' = [calls EXCEPT ![p] = Append(@, Call("create_environment", n, "True"))]
          /\ pc' = [pc EXCEPT ![p] = "install_dependencies"]
          /\ UNCHANGED exitcode
       \/ /\ \E left \in {EnvEmpty, EnvNoPip} :
               envs' = [envs EXCEPT ![n] = IF @ = EnvEmpty \/ ~@.exists THEN left ELSE @]
          /\ stderr' = [stderr EXCEPT ![p] =
                          @ \o << <<"ERROR: Failed to create environment">>, <<"e.stderr">> >>]
          /\ calls' = [calls EXCEPT ![p] = Append(@, Call("create_environment", n, "False"))]
          /\ AfterProvisionFailed(p)
    /\ UNCHANGED <<toolsDirExists, tools, storage, argv, input_data, subcommands,
                   local, child, stdout, reclaimed>>

(* ---------------- install_dependencies ---------------- *)
SetOf(seq) == {seq[i] : i \in 1..Len(seq)}

\* what the caller of install_dependencies does with its result: lines
\* 150-152 of run_subcommand, line 220 of the loop of update
AfterInstall_IgnoresFailure(p, ok) ==
    /\ calls' = [calls EXCEPT ![p] =
                    Append(@, Call("install_dependencies", local[p].name,
                                   IF ok THEN "True" ELSE "False"))]
    /\ UNCHANGED exitcode
    /\ IF IsUpdate(p)
       THEN /\ pc' = [pc EXCEPT ![p] = "update_loop"]
            /\ UNCHANGED local
       ELSE /\ pc' = [pc EXCEPT ![p] = "tool_path"]
            /\ local' = [local EXCEPT ![p].python_exe =
                            [kind |-> "env", name |-> local[p].name]]

AfterInstall(p, ok) ==
    /\ calls' = [calls EXCEPT ![p] =
                    Append(@, Call("install_dependencies", local[p].name,
                                   IF ok THEN "True" ELSE "False"))]
    /\ IF ok
       THEN /\ UNCHANGED exitcode
            /\ IF IsUpdate(p)
               THEN /\ pc' = [pc EXCEPT ![p] = "update_loop"]
                    /\ UNCHANGED local
               ELSE /\ pc' = [pc EXCEPT ![p] = "tool_path"]
                    \* line 152: get_python_executable(env_path)
                    /\ local' = [local EXCEPT ![p].python_exe =
                                    [kind |-> "env", name |-> local[p].name]]
       ELSE /\ AfterProvisionFailed(p)
            /\ UNCHANGED local

\* install_dependencies(env_path, packages), lines 63-86
InstallDependencies(p) ==
    /\ UNCHANGED tvars
    /\ pc[p] = "install_dependencies"
    /\ LET n == local[p].name
           packages == local[p].requires
       IN  IF packages = <<>>
           THEN /\ AfterInstall(p, TRUE)
                /\ UNCHANGED <<envs, stderr>>
           ELSE IF ~envs[n].pip
           THEN \* FileNotFoundError
                /\ stderr' = [stderr EXCEPT ![p] =
                                @ \o << <<"Installing/verifying packages">>,
                                        <<"ERROR: pip executable not found">> >>]
                /\ AfterInstall(p, FALSE)
                /\ UNCHANGED envs
           ELSE \/ /\ envs' = [envs EXCEPT ![n].pkgs = @ \cup SetOf(packages)]
                   /\ stderr' = [stderr EXCEPT ![p] =
                                   @ \o << <<"Installing/verifying packages">>,
                                           <<"+ Dependencies are up to date">> >>]
                   /\ AfterInstall(p, TRUE)
                \/ \* CalledProcessError
                   /\ stderr' = [stderr EXCEPT ![p] =
                                   @ \o << <<"Installing/verifying packages">>,
                                           <<"ERROR: Failed to install dependencies">>,
                                           <<"e.stderr">> >>]
                   /\ AfterInstall(p, FALSE)
                   /\ UNCHANGED envs
    /\ UNCHANGED <<toolsDirExists, tools, storage, argv, input_data, subcommands,
                   child, stdout, reclaimed>>

(* ---------------- cleanup_orphaned_files and update ---------------- *)
\* the lines printed for the orphans of one listing
RECURSIVE CleanupLines(_, _, _, _)
CleanupLines(listing, i, names, line) ==
    IF i > Len(listing) THEN <<>>
    ELSE (IF listing[i] \notin names THEN << line \o listing[i] >> ELSE <<>>)
           \o CleanupLines(listing, i + 1, names, line)

\* subcommands.keys(), the argument of line 214
CleanupNames_LoadedOnly(d) == {d[i][1] : i \in {j \in 1..Len(d) : ~HasError(d[j][2])}}

CleanupNames(d) == Keys(d)

\* the folders of one root that the loops of lines 114-119 and 123-128 remove:
\* "if folder_name not in subcommand_names"
Orphans_All(dirs, names) == dirs

Orphans(dirs, names) == dirs \ names

\* cleaned_count: one more for every orphan of either loop, lines 119 and 128
CleanedCount_Listed(orphanEnvs, orphanTools) ==
    Cardinality({n \in DirNames : envs[n].exists})
      + Cardinality({n \in DirNames : storage[n]})

CleanedCount(orphanEnvs, orphanTools) ==
    Cardinality(orphanEnvs) + Cardinality(orphanTools)

\* cleanup_orphaned_files(subcommands.keys()), line 214.  rmtree with
\* ignore_errors=True may leave a folder it could not remove.
Cleanup(p) ==
    /\ UNCHANGED tvars
    /\ pc[p] = "cleanup"
    /\ LET names == CleanupNames(subcommands[p])
           envDirs == {n \in DirNames : envs[n].exists}
           toolDirs == {n \in DirNames : storage[n]}
           orphanEnvs == Orphans(envDirs, names)
           orphanTools == Orphans(toolDirs, names)
           cleaned_count == CleanedCount(orphanEnvs, orphanTools)
       IN  \E keptEnvs \in SUBSET orphanEnvs, keptTools \in SUBSET orphanTools,
              le \in Listings(envDirs), lt \in Listings(toolDirs) :
             /\ envs' = [n \in DirNames |->
                           IF n \in orphanEnvs \ keptEnvs THEN EnvAbsent ELSE envs[n]]
             /\ storage' = [n \in DirNames |->
                           IF n \in orphanTools \ keptTools THEN FALSE ELSE storage[n]]
             /\ stderr' = [stderr EXCEPT ![p] =
                   @ \o << <<"Checking for orphaned files and environments...">> >>
                     \o CleanupLines(le, 1, names, <<"Cleaning up orphaned environment">>)
                     \o CleanupLines(lt, 1, names, <<"Cleaning up orphaned tools folder">>)
                     \o (IF cleaned_count = 0
                         THEN << <<"No orphaned files found">> >> ELSE <<>>)]
             /\ local' = [local EXCEPT ![p].cleaned_count = cleaned_count,
                                       ![p].subcommand_names = names,
                                       ![p].todo = subcommands[p]]
             \* clean: every removal succeeded; again: this run follows a clean
             \* run with the same names
             /\ reclaimed' = [ran |-> TRUE, names |-> names,
                              clean |-> keptEnvs = {} /\ keptTools = {},
                              again |-> /\ reclaimed.ran
                                        /\ reclaimed.clean
                                        /\ reclaimed.names = names]
    /\ calls' = [calls EXCEPT ![p] = Append(@, Call("cleanup_orphaned_files", <<>>, ""))]
    /\ pc' = [pc EXCEPT ![p] = "update_loop"]
    /\ UNCHANGED <<toolsDirExists, tools, argv, input_data, subcommands, child,
                   stdout, exitcode>>

\* "if requires:" of line 147 and "if data.get("requires"):" of line 217
Truthy_Always(requires) == TRUE

Truthy(requires) == requires # <<>>

\* lines 216-221: one turn of the loop over subcommands.items()
UpdateLoop(p) ==
    /\ UNCHANGED tvars
    /\ pc[p] = "update_loop"
    /\ IF local[p].todo = <<>>
       THEN /\ stderr' = [stderr EXCEPT ![p] = Append(@, <<"Update and cleanup complete.">>)]
            /\ Exit(p, 0)
            /\ UNCHANGED local
       ELSE LET name == Head(local[p].todo)[1]
                data == Head(local[p].todo)[2]
            IN  /\ local' = [local EXCEPT ![p].todo = Tail(@),
                                          ![p].name = name,
                                          ![p].requires = RequiresOf(data)]
                /\ pc' = [pc EXCEPT ![p] =
                            IF Truthy(RequiresOf(data)) THEN "create_environment"
                            ELSE "update_loop"]
                /\ UNCHANGED <<stderr, exitcode>>
    /\ UNCHANGED <<fs, argv, input_data, subcommands, child, stdout, calls, reclaimed>>

(* ---------------- run_subcommand ---------------- *)
\* the test of line 139
NotFound_NameOnly(d, name) == ~Has(d, name)

NotFound(d, name) == ~Has(d, name) \/ HasError(Get(d, name))

\* lines 139-155: the lookup, and the choice of the interpreter
Resolve(p) ==
    /\ UNCHANGED tvars
    /\ pc[p] = "resolve"
    /\ LET name == argv[p][1] IN
       IF NotFound(subcommands[p], name)
       THEN /\ stderr' = [stderr EXCEPT ![p] =
                            Append(@, <<"ERROR: Subcommand not found or could not be loaded">>)]
            /\ Exit(p, 0)
            /\ UNCHANGED local
       ELSE LET requires == RequiresOf(Get(subcommands[p], name)) IN
            /\ local' = [local EXCEPT ![p].name = name,
                                      ![p].requires = requires,
                                      ![p].python_exe =
                                          IF Truthy(requires) THEN NoExe ELSE HostExe]
            /\ pc' = [pc EXCEPT ![p] =
                        IF Truthy(requires) THEN "create_environment" ELSE "tool_path"]
            /\ UNCHANGED <<stderr, exitcode>>
    /\ UNCHANGED <<fs, argv, input_data, subcommands, child, stdout, calls, reclaimed>>

\* line 160: os.path.exists(subcommand_tool_path)
ToolPathCheck(p) ==
    /\ UNCHANGED tvars
    /\ pc[p] = "tool_path"
    /\ pc' = [pc EXCEPT ![p] = IF storage[local[p].name] THEN "launch" ELSE "makedirs"]
    /\ UNCHANGED <<fs, argv, input_data, subcommands, local, child, stdout, stderr,
                   exitcode, calls, reclaimed>>

\* line 161: os.makedirs raises FileExistsError when the folder has appeared
\* since the test
ToolPathMakedirs_NoCreate(p) ==
    /\ UNCHANGED tvars
    /\ pc[p] = "makedirs"
    /\ pc' = [pc EXCEPT ![p] = "launch"]
    /\ UNCHANGED <<fs, argv, input_data, subcommands, local, child, stdout, stderr,
                   exitcode, calls, reclaimed>>

ToolPathMakedirs(p) ==
    /\ UNCHANGED tvars
    /\ pc[p] = "makedirs"
    /\ IF storage[local[p].name]
       THEN /\ stderr' = [stderr EXCEPT ![p] = Append(@, <<"Traceback", "FileExistsError">>)]
            /\ Exit(p, 1)
            /\ UNCHANGED storage
       ELSE /\ storage' = [storage EXCEPT ![local[p].name] = TRUE]
            /\ pc' = [pc EXCEPT ![p] = "launch"]
            /\ UNCHANGED <<stderr, exitcode>>
    /\ UNCHANGED <<toolsDirExists, tools, envs, argv, input_data, subcommands, local,
                   child, stdout, calls, reclaimed>>

\* json.dumps(input_data), line 168
DumpInput(data) == <<"json">> \o data

\* whether python_exe can be executed
Executable(exe) == exe.kind = "host" \/ (exe.kind = "env" /\ envs[exe.name].python)

\* the command line of the child, line 174
ChildArgs(name, data) == <<name \o DotPy, DumpInput(data)>>

\* the stdin the child is given: subprocess.run is called without input= and
\* without stdin=, so the child inherits the manager's standard input
ChildStdin(data) == "inherited"

\* lines 171-180 and 193-194: subprocess.run starts the child, or fails to
Launch(p) ==
    /\ UNCHANGED tvars
    /\ pc[p] = "launch"
    /\ LET name == local[p].name
           exe  == local[p].python_exe
       IN  IF Executable(exe)
           THEN /\ child' = [child EXCEPT ![p] =
                               [NoChild EXCEPT !.state = "running",
                                               !.exe = exe,
                                               !.args = ChildArgs(name, input_data[p]),
                                               !.stdin = ChildStdin(input_data[p]),
                                               !.tool_path = name]]
                /\ stderr' = [stderr EXCEPT ![p] = Append(@, <<"--- Running Subcommand">>)]
                /\ calls' = [calls EXCEPT ![p] = Append(@, Call("subprocess.run", name, ""))]
                /\ pc' = [pc EXCEPT ![p] = "wait"]
                /\ UNCHANGED exitcode
           ELSE /\ stderr' = [stderr EXCEPT ![p] =
                               @ \o << <<"--- Running Subcommand">>,
                                       <<"ERROR: Python executable not found">> >>]
                /\ Exit(p, 0)
                /\ UNCHANGED <<child, calls>>
    /\ UNCHANGED <<fs, argv, input_data, subcommands, local, stdout, reclaimed>>

\* the child runs to its end: what it wrote and its exit status
ChildExit(p) ==
    /\ UNCHANGED tvars
    /\ pc[p] = "wait"
    /\ child[p].state = "running"
    /\ \E r \in ChildResults :
         child' = [child EXCEPT ![p].state = "exited", ![p].out = r.out,
                                ![p].err = r.err, ![p].code = r.code]
    /\ UNCHANGED <<fs, pc, argv, input_data, subcommands, local, stdout, stderr,
                   exitcode, calls, reclaimed>>

\* text=True: the captured bytes are decoded with universal newlines
RECURSIVE Text(_)
Text(bytes) ==
    IF bytes = <<>> THEN <<>>
    ELSE IF Head(bytes) = CR
    THEN IF Len(bytes) >= 2 /\ bytes[2] = NL
         THEN <<NL>> \o Text(Tail(Tail(bytes)))
         ELSE <<NL>> \o Text(Tail(bytes))
    ELSE <<Head(bytes)>> \o Text(Tail(bytes))

\* line 183: what the manager prints on its stdout for the child's stdout
RelayStdout(out) == PrintTo(<<>>, Text(out))

\* lines 181-192: subprocess.run has returned or raised CalledProcessError
Relay_TimesOut(p) ==
    /\ UNCHANGED tvars
    /\ pc[p] = "wait"
    /\ child[p].state \in {"running", "exited"}
    /\ IF child[p].code = 0
       THEN /\ stdout' = [stdout EXCEPT ![p] = @ \o RelayStdout(child[p].out)]
            /\ stderr' = [stderr EXCEPT ![p] =
                            IF Text(child[p].err) # <<>>
                            THEN Append(@, <<"process.stderr">> \o Text(child[p].err))
                            ELSE @]
       ELSE /\ stderr' = [stderr EXCEPT ![p] =
                            @ \o << <<"ERROR: Subcommand failed with an error.">>,
                                    <<"e.stdout">> \o Text(child[p].out),
                                    <<"e.stderr">> \o Text(child[p].err) >>]
            /\ UNCHANGED stdout
    /\ Exit(p, 0)
    /\ UNCHANGED <<fs, argv, input_data, subcommands, local, child, calls, reclaimed>>

Relay(p) ==
    /\ UNCHANGED tvars
    /\ pc[p] = "wait"
    /\ child[p].state = "exited"
    /\ IF child[p].code = 0
       THEN /\ stdout' = [stdout EXCEPT ![p] = @ \o RelayStdout(child[p].out)]
            /\ stderr' = [stderr EXCEPT ![p] =
                            IF Text(child[p].err) # <<>>
                            THEN Append(@, <<"process.stderr">> \o Text(child[p].err))
                            ELSE @]
       ELSE /\ stderr' = [stderr EXCEPT ![p] =
                            @ \o << <<"ERROR: Subcommand failed with an error.">>,
                                    <<"e.stdout">> \o Text(child[p].out),
                                    <<"e.stderr">> \o Text(child[p].err) >>]
            /\ UNCHANGED stdout
    /\ Exit(p, 0)
    /\ UNCHANGED <<fs, argv, input_data, subcommands, local, child, calls, reclaimed>>

Next ==
    \E p \in Procs :
        \/ Start(p)
        \/ Discover(p)
        \/ ListPrint(p)
        \/ Cleanup(p)
        \/ UpdateLoop(p)
        \/ Resolve(p)
        \/ CreateCheck(p)
        \/ VenvSpawnError(p)
        \/ VenvMkdir(p)
        \/ VenvFinish(p)
        \/ InstallDependencies(p)
        \/ ToolPathCheck(p)
        \/ ToolPathMakedirs(p)
        \/ Launch(p)
        \/ ChildExit(p)
        \/ Relay(p)

Spec == Init /\ [][Next]_vars

(* ---------------- two invocations at the same time ---------------- *)
\* a.py declares dependencies; b.py is present without dependencies, broken, or
\* gone with its folders left behind; nothing else is on disk yet
InitConc ==
    /\ toolsDirExists = TRUE
    /\ \E b \in {ModPlain, ModRaise, Absent} :
         /\ tools = [f \in FileNames \ (IF b = Absent THEN {FileB} ELSE {}) |->
                       IF f = FileA THEN ModDeps ELSE IF f = FileB THEN b ELSE ModDeps]
         /\ envs = [n \in DirNames |->
                       IF n = NameB /\ b # ModPlain THEN EnvReady ELSE EnvAbsent]
         /\ storage = [n \in DirNames |-> n = NameB /\ b # ModPlain]
    /\ pc = [p \in Procs |-> "idle"]
    /\ argv = [p \in Procs |-> <<>>]
    /\ input_data = [p \in Procs |-> NoInput]
    /\ subcommands = [p \in Procs |-> <<>>]
    /\ local = [p \in Procs |-> NoLocal]
    /\ child = [p \in Procs |-> NoChild]
    /\ stdout = [p \in Procs |-> <<>>]
    /\ stderr = [p \in Procs |-> <<>>]
    /\ exitcode = [p \in Procs |-> 0]
    /\ calls = [p \in Procs |-> <<>>]
    /\ reclaimed = NoReclaim
    /\ ToolsOff

NextConc ==
    \E p \in Procs :
        \/ StartConc(p)
        \/ Discover(p)
        \/ ListPrint(p)
        \/ Cleanup(p)
        \/ UpdateLoop(p)
        \/ Resolve(p)
        \/ CreateCheck(p)
        \/ VenvSpawnError(p)
        \/ VenvMkdir(p)
        \/ VenvFinish(p)
        \/ InstallDependencies(p)
        \/ ToolPathCheck(p)
        \/ ToolPathMakedirs(p)
        \/ Launch(p)
        \/ ChildExit(p)
        \/ Relay(p)

SpecConc == InitConc /\ [][NextConc]_vars

(* ---------------- one caller, with a fair scheduler ---------------- *)
\* a.py declares dependencies and b.py none; the environment of a is there or not
InitLive ==
    /\ toolsDirExists = TRUE
    /\ tools = [f \in FileNames |-> IF f = FileB THEN ModPlain ELSE ModDeps]
    /\ \E a \in {EnvAbsent, EnvReady} :
         envs = [n \in DirNames |-> IF n = NameA THEN a ELSE EnvAbsent]
    /\ storage = [n \in DirNames |-> FALSE]
    /\ pc = [p \in Procs |-> IF p = 1 THEN "idle" ELSE "off"]
    /\ argv = [p \in Procs |-> <<>>]
    /\ input_data = [p \in Procs |-> NoInput]
    /\ subcommands = [p \in Procs |-> <<>>]
    /\ local = [p \in Procs |-> NoLocal]
    /\ child = [p \in Procs |-> NoChild]
    /\ stdout = [p \in Procs |-> <<>>]
    /\ stderr = [p \in Procs |-> <<>>]
    /\ exitcode = [p \in Procs |-> 0]
    /\ calls = [p \in Procs |-> <<>>]
    /\ reclaimed = NoReclaim
    /\ ToolsOff

\* subprocess.run returns once the child has exited, and the manager, which
\* is the only thread of its process, then runs on; nothing makes the child exit
SpecLive == InitLive /\ [][Next]_vars /\ \A p \in Procs : WF_vars(Relay(p))

(* ---------------- the bundled tools, run as scripts ---------------- *)
\* no invocation of manager.py takes part
ManagerOff ==
    /\ toolsDirExists = FALSE
    /\ tools = NoAttrs
    /\ envs = [n \in DirNames |-> EnvAbsent]
    /\ storage = [n \in DirNames |-> FALSE]
    /\ pc = [p \in Procs |-> "off"]
    /\ argv = [p \in Procs |-> <<>>]
    /\ input_data = [p \in Procs |-> NoInput]
    /\ subcommands = [p \in Procs |-> <<>>]
    /\ local = [p \in Procs |-> NoLocal]
    /\ child = [p \in Procs |-> NoChild]
    /\ stdout = [p \in Procs |-> <<>>]
    /\ stderr = [p \in Procs |-> <<>>]
    /\ exitcode = [p \in Procs |-> 0]
    /\ calls = [p \in Procs |-> <<>>]
    /\ reclaimed = NoReclaim

GetDuration        == <<"get_duration">>
BeatAnalyzer       == <<"beat_analyzer">>
ChatterboxTts      == <<"chatterbox_tts">>
CombineAudio       == <<"combine_audio">>
FastwanT2vGen      == <<"fastwan_t2v_gen">>
FastwanVideoGen    == <<"fastwan_video_gen">>
ImageVideoAnalyzer == <<"image_video_analyzer">>
UrlScreenshot      == <<"url_screenshot">>
BundledTools ==
    {GetDuration, BeatAnalyzer, ChatterboxTts, CombineAudio, FastwanT2vGen,
     FastwanVideoGen, ImageVideoAnalyzer, UrlScreenshot}

\* get_duration takes its input from sys.argv[1]; the others read sys.stdin
ReadsArgv(name) == name = GetDuration
\* the tools whose main() ends the process itself on an error
MainExits == {BeatAnalyzer, ChatterboxTts, CombineAudio}
\* the tools whose __main__ block catches what main() raises
BoilerplateCatches == {FastwanT2vGen, FastwanVideoGen, UrlScreenshot, ImageVideoAnalyzer}
\* the tools whose __main__ block requires SUBCOMMAND_TOOL_PATH
NeedsToolPath == {FastwanT2vGen, FastwanVideoGen, UrlScreenshot}

\* the input documents: {}, a document that fits the tool, a document whose
\* item lacks a required field, and {"file_path": ...}
DocEmpty    == <<"dict">>
DocGood     == <<"doc", "D1">>
DocNoField  == <<"doc", "D2">>
DocFilePath == <<"file_path", "arg">>
Payloads    == {DocEmpty, DocGood, DocNoField, DocFilePath}

NoText  == <<>>
BadJson == <<"not-json">>
Texts   == {NoText, BadJson} \cup {DumpInput(d) : d \in Payloads}
\* what a caller of manager.py may have left on the standard input the child inherits
CallerStdins == {NoText, BadJson, DumpInput(DocGood)}

\* what the document is for main() of the tool
Validity(name, data) ==
    IF name = GetDuration
    THEN IF data \in {DocGood, DocFilePath} THEN "ok" ELSE "no_field"
    ELSE IF data = DocGood THEN "ok"
    ELSE IF data = DocNoField THEN "no_field"
    ELSE "no_envelope"

ErrorObject   == "{status: error, message}"
SuccessObject == "{status: success}"
ResultsObject == "{results: [{error}]}"

\* the exit status after an error: get_duration has no sys.exit(1)
ErrorExit(name) == IF name = GetDuration THEN 0 ELSE 1

ToolFails(t) == [t EXCEPT !.pc = "exit", !.err = <<ErrorObject>>, !.code = ErrorExit(t.name)]

\* a tool process as it starts: launched by run_subcommand of the manager for
\* a payload, or by hand
ToolStarts ==
    {[pc |-> "start", name |-> n, by |-> "manager", payload |-> d,
      argv |-> ChildArgs(n, d),
      stdin |-> IF ChildStdin(d) = "inherited" THEN s ELSE DumpInput(d),
      tool_path_set |-> TRUE, fault |-> f, text |-> NoText, received |-> NoInput,
      out |-> <<>>, err |-> <<>>, code |-> 0] :
        n \in BundledTools, d \in Payloads, s \in CallerStdins, f \in BOOLEAN}
    \cup
    UNION {
      {[pc |-> "start", name |-> n, by |-> "shell", payload |-> NoInput,
        argv |-> a, stdin |-> s,
        tool_path_set |-> e, fault |-> f, text |-> NoText, received |-> NoInput,
        out |-> <<>>, err |-> <<>>, code |-> 0] :
          a \in {<<n \o DotPy>>} \cup {<<n \o DotPy, t>> : t \in {BadJson, DumpInput(DocGood)}},
          s \in {NoText, BadJson, DumpInput(DocGood), DumpInput(DocNoField)},
          e \in BOOLEAN, f \in BOOLEAN} : n \in BundledTools}

InitTool == ManagerOff /\ tool \in ToolStarts /\ combine = NoCombine /\ video = NoVideo

\* the __main__ block takes the input text from its channel, or reports that
\* there is none
ToolRead ==
    /\ tool.pc = "start"
    /\ tool' = IF ReadsArgv(tool.name)
               THEN IF Len(tool.argv) > 1
                    THEN [tool EXCEPT !.pc = "loads", !.text = tool.argv[2]]
                    ELSE ToolFails(tool)
               ELSE IF tool.stdin # NoText
                    THEN [tool EXCEPT !.pc = "loads", !.text = tool.stdin]
                    ELSE ToolFails(tool)
    /\ UNCHANGED <<mvars, combine, video>>

\* json.loads of the text, and the test of SUBCOMMAND_TOOL_PATH where there is one
ToolLoads ==
    /\ tool.pc = "loads"
    /\ tool' = IF tool.text = NoText \/ tool.text[1] # "json"
               THEN ToolFails(tool)
               ELSE IF tool.name \in NeedsToolPath /\ ~tool.tool_path_set
               THEN ToolFails(tool)
               ELSE [tool EXCEPT !.pc = "main", !.received = Tail(tool.text)]
    /\ UNCHANGED <<mvars, combine, video>>

\* main(data, tool_folder)
ToolMain ==
    /\ tool.pc = "main"
    /\ LET v == Validity(tool.name, tool.received) IN
       tool' =
         IF tool.name = ImageVideoAnalyzer
         THEN IF v = "no_envelope" THEN ToolFails(tool)
              ELSE IF v = "no_field" \/ tool.fault
              THEN [tool EXCEPT !.pc = "exit", !.out = <<ResultsObject>>]
              ELSE [tool EXCEPT !.pc = "exit", !.out = <<SuccessObject>>]
         ELSE IF v # "ok" \/ tool.fault
              THEN ToolFails(tool)
              ELSE [tool EXCEPT !.pc = "exit", !.out = <<SuccessObject>>]
    /\ UNCHANGED <<mvars, combine, video>>

NextTool == ToolRead \/ ToolLoads \/ ToolMain
SpecTool == InitTool /\ [][NextTool]_vars

(* ---------------- combine_audio: main ---------------- *)
DeclaredValues ==
    {"append", "crossfade", "dual-fade", "fadein", "fadeout", "overlap", "silence"}
DisplayNames ==
    {"Append (Default if not chosen)", "Crossfade", "Dual-Fade", "Fade In",
     "Fade Out", "Overlap", "Silence"}
\* item has no "transition_type" key
Missing == "<missing>"
TransitionInputs == DeclaredValues \cup DisplayNames \cup {"other", Missing}

\* transition_map.get(key, "append"), lines 194-202 and 217
transition_map_get(key) ==
    CASE key = "Append (Default if not chosen)" -> "append"
      [] key = "Crossfade" -> "crossfade"
      [] key = "Dual-Fade" -> "dual-fade"
      [] key = "Fade In"   -> "fadein"
      [] key = "Fade Out"  -> "fadeout"
      [] key = "Overlap"   -> "overlap"
      [] key = "Silence"   -> "silence"
      [] OTHER             -> "append"

\* item.get("transition_type", default)
ItemGet(value, default) == IF value = Missing THEN default ELSE value

MaxItems == 2

InitCombine ==
    /\ ManagerOff
    /\ tool = NoTool
    /\ video = NoVideo
    /\ \E n \in 1..MaxItems :
         \E given \in [1..n -> TransitionInputs] :
            combine = [pc |-> "normalise", given |-> given, items |-> given,
                       i |-> 1, applied |-> <<>>]

\* lines 215-217: one turn of the loop over items_to_process
CombineNormalise ==
    /\ combine.pc = "normalise"
    /\ combine.i <= Len(combine.items)
    /\ LET human_readable_type ==
               ItemGet(combine.items[combine.i], "Append (Default if not chosen)")
       IN  combine' = [combine EXCEPT
                         !.items[combine.i] = transition_map_get(human_readable_type),
                         !.i = @ + 1]
    /\ UNCHANGED <<mvars, tool, video>>

\* line 219, and the transition types apply_and_combine reads from the items
\* (lines 91, 122, 134, 147, 166)
CombineApply ==
    /\ combine.pc = "normalise"
    /\ combine.i > Len(combine.items)
    /\ combine' = [combine EXCEPT
                     !.pc = "done",
                     !.applied = [k \in 1..Len(combine.items) |->
                                     ItemGet(combine.items[k], "append")]]
    /\ UNCHANGED <<mvars, tool, video>>

NextCombine == CombineNormalise \/ CombineApply
SpecCombine == InitCombine /\ [][NextCombine]_vars

(* ---------------- image_video_analyzer: the keyframe loop ---------------- *)
MaxFps        == 3
MaxFrameCount == 4
MaxScenes     == 3
\* keyframe_interval in half seconds: 0, 0.5, 1 and 2 seconds
IntervalHalves == {0, 1, 2, 4}

InitVideo ==
    /\ ManagerOff
    /\ tool = NoTool
    /\ combine = NoCombine
    /\ \E opened \in BOOLEAN, fps \in 0..MaxFps, n \in 0..MaxFrameCount,
          h \in IntervalHalves :
         video = [pc |-> "open", opened |-> opened, fps |-> fps, frame_count |-> n,
                  interval_halves |-> h, keyframe_interval_frames |-> 0,
                  current_frame_num |-> 0, scenes |-> 0]

\* lines 90-101: the video is opened and the interval is turned into frames;
\* frame_count / fps raises ZeroDivisionError when the file reports no frame rate
VideoOpen ==
    /\ video.pc = "open"
    /\ video' = IF ~video.opened THEN [video EXCEPT !.pc = "returned"]
                ELSE IF video.fps = 0 THEN [video EXCEPT !.pc = "raised"]
                ELSE [video EXCEPT
                        !.pc = "loop",
                        !.keyframe_interval_frames = (video.interval_halves * video.fps) \div 2]
    /\ UNCHANGED <<mvars, tool, combine>>

\* lines 104-124: one turn of the loop; query_ollama may raise
VideoIterate ==
    /\ video.pc = "loop"
    /\ video.scenes < MaxScenes
    /\ \/ /\ video.current_frame_num >= video.frame_count   \* cap.read(): ret is False
          /\ video' = [video EXCEPT !.pc = "released"]
       \/ /\ video.current_frame_num < video.frame_count
          /\ video' = [video EXCEPT !.pc = "raised"]
       \/ /\ video.current_frame_num < video.frame_count
          /\ LET next == video.current_frame_num + video.keyframe_interval_frames IN
             video' = [video EXCEPT
                         !.scenes = @ + 1,
                         !.current_frame_num = next,
                         !.pc = IF next >= video.frame_count THEN "released" ELSE "loop"]
    /\ UNCHANGED <<mvars, tool, combine>>

NextVideo == VideoOpen \/ VideoIterate
SpecVideo == InitVideo /\ [][NextVideo]_vars

(* ======================= properties ======================= *)
IsRun(p) == Len(argv[p]) >= 1 /\ argv[p][1] \notin {CmdList, CmdUpdate}

\* the module behind a subcommand name, as it lies in SUBCOMMANDS_DIR
ModuleOf(n) == IF n \o DotPy \in DOMAIN tools THEN tools[n \o DotPy] ELSE Absent
\* the dependency list that module declares
DepsOf(n) == IF ModuleOf(n).load = "ok" THEN GetAttr(ModuleOf(n), "REQUIRES", <<>>) ELSE <<>>

Said(p, msg) == \E i \in 1..Len(stderr[p]) : stderr[p][i] = msg
MsgNotFound == <<"ERROR: Subcommand not found or could not be loaded">>
MsgNoExe    == <<"ERROR: Python executable not found">>
MsgBadFile  == <<"ERROR: Could not read or parse JSON file">>

\* discover_subcommands has just returned to main or run_subcommand
DiscoverReturned(p) == pc[p] \in {"list_print", "cleanup", "resolve"}

\* the non-reserved entry points that lie in SUBCOMMANDS_DIR
ExpectedNames == {n \in DirNames : n \o DotPy \in DOMAIN tools}

DescriptorShapes == {{"input_schema", "requires"}, {"error"}}

\* C2: whatever way the load of one unit fails, discover_subcommands
\* completes (main goes on with the dict), the error is recorded on that unit
\* only, and every descriptor is either fully described or marked failed.
C2_Original ==
    [][\A p \in Procs :
           pc[p] = "discover" =>
               /\ DiscoverReturned(p)'
               /\ \A i \in 1..Len(subcommands'[p]) :
                      /\ DOMAIN subcommands'[p][i][2] \in DescriptorShapes
                      /\ HasError(subcommands'[p][i][2])
                           <=> ModuleOf(subcommands'[p][i][1]).load # "ok"]_vars

\* the environment of the invocation could not be set up, or its interpreter not run
ProvisioningFailed(p) ==
    \/ \E i \in 1..Len(calls[p]) : calls[p][i].result = "False"
    \/ Said(p, <<"Traceback", "OSError">>)
    \/ Said(p, <<"Traceback", "FileExistsError">>)
    \/ Said(p, MsgNoExe)

\* C3: when tool X loads, "list" completes (it prints the dict) and the
\* dispatch of X reaches the launch of the child, whatever other tools of the
\* directory are broken.
C3_Original ==
    \A p \in Procs :
        (pc[p] = "done" /\ Len(argv[p]) >= 1) =>
            /\ argv[p][1] = CmdList => stdout[p] # <<>>
            /\ ( /\ IsRun(p)
                 /\ argv[p][1] \in DirNames
                 /\ ModuleOf(argv[p][1]).load = "ok"
                 /\ input_data[p] # NoInput
                 /\ ~ProvisioningFailed(p) ) => child[p].state # "none"

\* C4: the dispatch of a name that is not in the dict discover_subcommands
\* returned, or whose descriptor has an error, reports "not found" and ends
\* the invocation without any call of the provisioner and without a child.
C4_NotFoundLaunchesNothing ==
    [][\A p \in Procs :
           ( /\ pc[p] = "resolve"
             /\ \/ argv[p][1] \notin Keys(subcommands[p])
                \/ "error" \in DOMAIN Get(subcommands[p], argv[p][1]) )
           => /\ pc'[p] = "done"
              /\ Said(p, MsgNotFound)'
              /\ child'[p].state = "none"
              /\ calls'[p] = calls[p]]_vars

C4_Witness ==
    \E p \in Procs :
        /\ pc[p] = "done"
        /\ IsRun(p)
        /\ Has(subcommands[p], argv[p][1])
        /\ HasError(Get(subcommands[p], argv[p][1]))
        /\ Said(p, MsgNotFound)
        /\ child[p].state = "none"

\* C5: in the calls of an invocation, install_dependencies comes right after
\* a create_environment of the same name that returned True, the child of a
\* tool with dependencies is started right after both returned True, and a
\* dispatch in which either returned False starts no child.
C5_ProvisionBeforeLaunch ==
    \A p \in Procs :
        /\ \A i \in 1..Len(calls[p]) :
              LET c == calls[p][i] IN
              /\ c.fn = "install_dependencies" =>
                    /\ i > 1
                    /\ calls[p][i - 1] = Call("create_environment", c.name, "True")
              /\ (c.fn = "subprocess.run" /\ DepsOf(c.name) # <<>>) =>
                    /\ i > 2
                    /\ calls[p][i - 1] = Call("install_dependencies", c.name, "True")
                    /\ calls[p][i - 2] = Call("create_environment", c.name, "True")
        /\ (IsRun(p) /\ \E i \in 1..Len(calls[p]) : calls[p][i].result = "False")
              => child[p].state = "none"

C5_Witness ==
    \E p \in Procs :
        /\ child[p].state = "running"
        /\ DepsOf(child[p].tool_path) # <<>>
        /\ child[p].exe.kind = "env"
        /\ calls[p][Len(calls[p])].fn = "subprocess.run"

\* C6: no environment folder ever appears for a name whose tool declares no
\* dependencies, in any step of list, update or run, and the child of such a
\* tool always runs under sys.executable.
C6_NoSandboxWithoutDependencies ==
    /\ [](\A p \in Procs :
             (child[p].state # "none" /\ DepsOf(child[p].tool_path) = <<>>)
                 => child[p].exe = HostExe)
    /\ [][\A n \in DirNames :
             (DepsOf(n) = <<>> /\ ~envs[n].exists) => ~envs'[n].exists]_vars

C6_Witness ==
    \E p \in Procs :
        /\ child[p].state = "exited"
        /\ ModuleOf(child[p].tool_path) = ModPlain
        /\ child[p].exe = HostExe
        /\ ~envs[child[p].tool_path].exists

\* C7: the child gets the serialized payload on its standard input, which is
\* then closed, and never as one of its command-line arguments.
C7_Original ==
    \A p \in Procs :
        child[p].state # "none" =>
            /\ child[p].stdin = "payload, closed"
            /\ \A i \in 1..Len(child[p].args) :
                   child[p].args[i] # DumpInput(input_data[p])

\* C8: when the child exits 0, the stdout of the router is byte for byte what
\* the child wrote to its stdout, and the router exits 0.
C8_Original ==
    \A p \in Procs :
        (pc[p] = "done" /\ child[p].state = "exited" /\ child[p].code = 0) =>
            /\ stdout[p] = child[p].out
            /\ exitcode[p] = 0

\* the dispatch ended in NotFound, in a provisioning failure, in a child that
\* exited non-zero, in a missing interpreter, or the payload file did not parse
Failed(p) ==
    \/ Said(p, MsgNotFound)
    \/ Said(p, MsgBadFile)
    \/ Said(p, MsgNoExe)
    \/ \E i \in 1..Len(calls[p]) : calls[p][i].result = "False"
    \/ (child[p].state = "exited" /\ child[p].code # 0)

\* C9: the router exits 0 when the dispatch succeeded and non-zero when it
\* failed, and the error text of a failed child is on the router's stderr.
C9_Original ==
    \A p \in Procs :
        (pc[p] = "done" /\ IsRun(p)) =>
            /\ Failed(p) => exitcode[p] # 0
            /\ (child[p].state = "exited" /\ child[p].code = 0) => exitcode[p] = 0
            /\ (child[p].state = "exited" /\ child[p].code # 0) =>
                   Said(p, <<"e.stderr">> \o Text(child[p].err))

\* C10: the stdout of a dispatching invocation is empty or exactly the
\* stdout of the child, and it is empty on every failure path.
C10_Original ==
    \A p \in Procs :
        IsRun(p) =>
            /\ \/ stdout[p] = <<>>
               \/ (child[p].state = "exited" /\ stdout[p] = child[p].out)
            /\ (pc[p] = "done" /\ Failed(p)) => stdout[p] = <<>>

MsgUpdateDone == <<"Update and cleanup complete.">>
MsgTidy       == <<"No orphaned files found">>

\* C11: when argv[2] of a <tool-name> invocation is not parseable JSON, the
\* router reports the input error on stderr, calls nothing (no discovery, no
\* child), keeps no substitute payload, and exits non-zero.
C11_Original ==
    \A p \in Procs :
        (IsRun(p) /\ Len(argv[p]) = 2 /\ argv[p][2].kind # "json") =>
            /\ pc[p] = "done"
            /\ Said(p, MsgBadFile)
            /\ input_data[p] = NoInput
            /\ calls[p] = <<>>
            /\ child[p].state = "none"
            /\ exitcode[p] # 0

\* C12: whenever a child has been started, the storage folder of its tool
\* exists, and the SUBCOMMAND_TOOL_PATH it was given is the folder of the name
\* that was dispatched, for tools with and without an environment.
C12_StorageReadyAtLaunch ==
    \A p \in Procs :
        child[p].state # "none" =>
            /\ storage[child[p].tool_path]
            /\ child[p].tool_path = argv[p][1]

C12_Witness ==
    \E p \in Procs :
        /\ child[p].state = "running"
        /\ child[p].exe = HostExe
        /\ child[p].tool_path = NameB
        /\ storage[NameB]
        /\ ~envs[NameB].exists

\* the step in which invocation p runs cleanup_orphaned_files
IsCleanupStep(p) == pc[p] = "cleanup" /\ pc'[p] = "update_loop"

EnvDirs  == {n \in DirNames : envs[n].exists}
ToolDirsOnDisk == {n \in DirNames : storage[n]}

\* C13 as stated: after cleanup_orphaned_files the folders of both roots are
\* exactly the folders there were before whose name is a current name.
C13_Original ==
    [][\A p \in Procs :
           IsCleanupStep(p) =>
               /\ EnvDirs' = EnvDirs \cap Keys(subcommands[p])
               /\ ToolDirsOnDisk' = ToolDirsOnDisk \cap Keys(subcommands[p])]_vars

\* C13, amended: cleanup_orphaned_files adds no folder, leaves every folder
\* whose name is a current name exactly as it was, and removes only folders
\* whose name is not a current name (one whose removal fails stays).
C13_ReclaimRemovesOnlyOrphans ==
    [][\A p \in Procs :
           IsCleanupStep(p) =>
               LET names == Keys(subcommands[p]) IN
               /\ EnvDirs' \subseteq EnvDirs
               /\ ToolDirsOnDisk' \subseteq ToolDirsOnDisk
               /\ \A n \in DirNames \cap names :
                      envs'[n] = envs[n] /\ storage'[n] = storage[n]
               /\ \A n \in DirNames \ names :
                      /\ envs'[n] \in {envs[n], EnvAbsent}
                      /\ storage'[n] \in {storage[n], FALSE}]_vars

C13_Witness ==
    \E p \in Procs :
        /\ pc[p] = "update_loop"
        /\ calls[p][Len(calls[p])].fn = "cleanup_orphaned_files"
        /\ local[p].cleaned_count > 0
        /\ reclaimed.clean
        /\ \E n \in local[p].subcommand_names : envs[n].exists /\ storage[n]
        /\ \E n \in DirNames \ local[p].subcommand_names : ~envs[n].exists /\ ~storage[n]

C15_Original ==
    [][\A p \in Procs :
           IsCleanupStep(p) =>
               local'[p].cleaned_count =
                   Cardinality(EnvDirs \ EnvDirs')
                     + Cardinality(ToolDirsOnDisk \ ToolDirsOnDisk')]_vars

\* C16: in every interleaving of list, update and run invocations, a folder of
\* either root disappears only in a step of cleanup_orphaned_files, and only
\* when no entry point of that name lies in the tools directory.
C16_LiveFoldersAreNeverRemoved ==
    [][\A n \in DirNames :
           ((envs[n].exists /\ ~envs'[n].exists) \/ (storage[n] /\ ~storage'[n]))
           => /\ n \o DotPy \notin DOMAIN tools
              /\ \E p \in Procs : IsCleanupStep(p)]_vars

C16_Witness ==
    /\ reclaimed.ran
    /\ ModuleOf(NameB) = Absent
    /\ ~envs[NameB].exists
    /\ ~storage[NameB]
    /\ envs[NameA].exists
    /\ storage[NameA]

\* C17: a creation that fails returns False (it never leaves main by an
\* exception), and create_environment never returns True for a folder that a
\* failed creation left half made.
C17_Original ==
    \A p \in Procs :
        /\ ~Said(p, <<"Traceback", "OSError">>)
        /\ pc[p] = "install_dependencies" =>
               envs[local[p].name] \notin {EnvEmpty, EnvNoPip}

\* C18: when the folder of the environment exists, create_environment returns
\* True at once: no venv is started and nothing on disk changes.
C18_CreateIsIdempotent ==
    [][\A p \in Procs :
           ( /\ pc[p] = "create_environment"
             /\ pc'[p] # pc[p]
             /\ envs[local[p].name].exists )
           => /\ pc'[p] = "install_dependencies"
              /\ fs' = fs
              /\ stderr'[p] = stderr[p]
              /\ calls'[p] = Append(calls[p],
                                    Call("create_environment", local[p].name, "True"))]_vars

C18_Witness ==
    \E p \in Procs :
        /\ pc[p] = "install_dependencies"
        /\ envs[local[p].name] = EnvReady
        /\ ~Said(p, <<"Creating new virtual environment">>)

\* invocation p is inside "python -m venv" for the environment of n
Creating(p, n) == pc[p] \in {"venv", "venv_running"} /\ local[p].name = n

\* C19: two invocations that dispatch the same tool never both run the
\* creation of its environment.
C19_Original ==
    \A p, q \in Procs :
        p # q => \A n \in DirNames : ~(Creating(p, n) /\ Creating(q, n))

IsUpdateInvocation(p) == Len(argv[p]) >= 1 /\ argv[p][1] = CmdUpdate

\* the names for which the invocation called create_environment, in order
CreatedNames(p) ==
    LET IsCreate(c) == c.fn = "create_environment"
        creates == SelectSeq(calls[p], IsCreate)
    IN  [i \in 1..Len(creates) |-> creates[i].name]

\* the names of the dict that declare dependencies, in the order of the dict
NamesWithDeps(d) ==
    LET HasDeps(e) == RequiresOf(e[2]) # <<>>
        deps == SelectSeq(d, HasDeps)
    IN  [i \in 1..Len(deps) |-> deps[i][1]]

\* C20: update calls discover_subcommands first, cleanup_orphaned_files second
\* with the names of that dict, and provisions afterwards; it creates an
\* environment only for tools that declare dependencies and installs only
\* after a creation that returned True; it starts no child and writes nothing
\* to stdout; an update that runs to its end has provisioned every tool that
\* declares dependencies, in the order of the dict.
C20_UpdateOrder ==
    \A p \in Procs :
        IsUpdateInvocation(p) =>
            /\ stdout[p] = <<>>
            /\ child[p].state = "none"
            /\ \A i \in 1..Len(calls[p]) :
                  LET c == calls[p][i] IN
                  /\ (i = 1) <=> (c.fn = "discover_subcommands")
                  /\ (i = 2) <=> (c.fn = "cleanup_orphaned_files")
                  /\ c.fn = "create_environment" =>
                        /\ Has(subcommands[p], c.name)
                        /\ RequiresOf(Get(subcommands[p], c.name)) # <<>>
                        /\ (c.result = "True" /\ i < Len(calls[p])) =>
                              calls[p][i + 1].fn = "install_dependencies"
                  /\ c.fn = "install_dependencies" =>
                        calls[p][i - 1] = Call("create_environment", c.name, "True")
            /\ Len(calls[p]) >= 2 => local[p].subcommand_names = Keys(subcommands[p])
            /\ (pc[p] = "done" /\ Said(p, MsgUpdateDone)) =>
                  /\ Len(calls[p]) >= 2
                  /\ CreatedNames(p) = NamesWithDeps(subcommands[p])
                  /\ calls[p][Len(calls[p])] # Call("create_environment",
                                                    calls[p][Len(calls[p])].name, "True")

C20_Witness ==
    \E p \in Procs :
        /\ IsUpdateInvocation(p)
        /\ pc[p] = "done"
        /\ Said(p, MsgUpdateDone)
        /\ ModuleOf(NameA) = ModDeps
        /\ ModuleOf(NameB) = ModPlain
        /\ Len(calls[p]) = 4
        /\ calls[p][4] = Call("install_dependencies", NameA, "True")

IsListInvocation(p) == Len(argv[p]) >= 1 /\ argv[p][1] = CmdList

\* the nesting depth after the first k tokens of a JSON text
JsonDepth(toks, k) ==
    Cardinality({m \in 1..k : toks[m] \in {"{", "["}})
      - Cardinality({m \in 1..k : toks[m] \in {"}", "]"}})

\* the text is one JSON object followed by the newline of print
IsOneJsonObject(out) ==
    /\ Len(out) >= 3
    /\ out[1] = "{"
    /\ out[Len(out)] = NL
    /\ JsonDepth(out, Len(out) - 1) = 0
    /\ \A k \in 1..(Len(out) - 2) : JsonDepth(out, k) >= 1

\* the keys of the outermost object of a JSON text, in order
RECURSIVE JsonKeys(_, _, _)
JsonKeys(toks, i, depth) ==
    IF i > Len(toks) THEN <<>>
    ELSE IF toks[i] \in {"{", "["} THEN JsonKeys(toks, i + 1, depth + 1)
    ELSE IF toks[i] \in {"}", "]"} THEN JsonKeys(toks, i + 1, depth - 1)
    ELSE IF depth = 1 /\ toks[i] = "\""
    THEN LET j == CHOOSE k \in (i + 1)..Len(toks) :
                     /\ toks[k] = "\""
                     /\ \A m \in (i + 1)..(k - 1) : toks[m] # "\""
         IN  <<SubSeq(toks, i + 1, j - 1)>> \o JsonKeys(toks, j + 1, depth)
    ELSE JsonKeys(toks, i + 1, depth)

\* C21: a "list" invocation whose discovery returns prints exactly one JSON
\* object whose keys are the names of the dict discovery returned, failed
\* loads included, and no step of it changes the environments, the storage
\* folders or the tool files; the only change on disk is the creation of a
\* missing tools directory.
C21_ListPrintsSnapshotAndKeepsDisk ==
    [][\A p \in Procs :
           ( /\ IsListInvocation(p)
             /\ pc[p] \in {"discover", "list_print"}
             /\ pc'[p] # pc[p] )
           => /\ envs' = envs
              /\ storage' = storage
              /\ tools' = tools
              /\ \/ toolsDirExists' = toolsDirExists
                 \/ pc[p] = "discover" /\ ~toolsDirExists /\ toolsDirExists'
              /\ pc[p] = "discover" => stdout'[p] = <<>>
              /\ pc[p] = "list_print" =>
                    LET keys == JsonKeys(stdout'[p], 1, 0) IN
                    /\ pc'[p] = "done"
                    /\ IsOneJsonObject(stdout'[p])
                    /\ Len(keys) = Len(subcommands[p])
                    /\ \A i \in 1..Len(keys) : keys[i] = subcommands[p][i][1]
                    /\ Cardinality({keys[i] : i \in 1..Len(keys)}) = Len(keys)]_vars

C21_Witness ==
    \E p \in Procs :
        /\ IsListInvocation(p)
        /\ pc[p] = "done"
        /\ JsonKeys(stdout[p], 1, 0) \in {<<NameA, NameB>>, <<NameB, NameA>>}
        /\ HasError(Get(subcommands[p], NameA))
        /\ ~HasError(Get(subcommands[p], NameB))
        /\ \E n \in DirNames : envs[n].exists /\ storage[n]

\* C22: when the tools directory is absent, discover_subcommands creates it
\* and returns an empty dict without failing; "list" then prints the empty
\* JSON object and the dispatch of any name ends with "not found" and
\* without a child.
C22_AbsentToolsDirIsBootstrapped ==
    /\ [][\A p \in Procs :
             (pc[p] = "discover" /\ pc'[p] # pc[p] /\ ~toolsDirExists) =>
                 /\ toolsDirExists'
                 /\ DOMAIN tools' = {}
                 /\ DiscoverReturned(p)'
                 /\ subcommands'[p] = <<>>]_vars
    /\ [](\A p \in Procs :
             (DOMAIN tools = {} /\ pc[p] = "done" /\ calls[p] # <<>>) =>
                 /\ IsListInvocation(p) => stdout[p] = <<"{", "}", NL>>
                 /\ IsRun(p) => /\ Said(p, MsgNotFound)
                                /\ child[p].state = "none"
                                /\ Len(calls[p]) = 1)

C22_Witness ==
    /\ DOMAIN tools = {}
    /\ toolsDirExists
    /\ \E p \in Procs :
          /\ IsRun(p)
          /\ pc[p] = "done"
          /\ Said(p, <<"Warning: Subcommands directory not found">>)
          /\ Said(p, MsgNotFound)

\* the lines by which run_subcommand and its callees report that the
\* provisioning, the launch or the child failed
FailureReports ==
    { <<"ERROR: Failed to create environment">>,
      <<"ERROR: pip executable not found">>,
      <<"ERROR: Failed to install dependencies">>,
      <<"ERROR: Python executable not found">>,
      <<"ERROR: Subcommand failed with an error.">>,
      <<"Traceback", "OSError">>,
      <<"Traceback", "FileExistsError">> }

Reported(p) == {i \in 1..Len(stderr[p]) : stderr[p][i] \in FailureReports}
CallsOf(p, fn) == {i \in 1..Len(calls[p]) : calls[p][i].fn = fn}

\* C25: an invocation of a tool calls create_environment, install_dependencies
\* and subprocess.run at most once each; a call that failed is the last call of
\* the invocation and no child follows it; once the child is started nothing
\* else is called; every failure ends the invocation with exactly one report.
C25_OneChildNoRetry ==
    \A p \in Procs :
        IsRun(p) =>
            /\ Cardinality(CallsOf(p, "subprocess.run")) <= 1
            /\ Cardinality(CallsOf(p, "create_environment")) <= 1
            /\ Cardinality(CallsOf(p, "install_dependencies")) <= 1
            /\ Cardinality(Reported(p)) <= 1
            /\ Reported(p) # {} => pc[p] = "done"
            /\ \A i \in 1..Len(calls[p]) :
                  calls[p][i].result = "False" =>
                      /\ i = Len(calls[p])
                      /\ pc[p] = "done"
                      /\ child[p].state = "none"
                      /\ Cardinality(Reported(p)) = 1
            /\ child[p].state # "none" =>
                  calls[p][Len(calls[p])].fn = "subprocess.run"
            /\ (pc[p] = "done" /\ child[p].state = "exited" /\ child[p].code # 0) =>
                  Cardinality(Reported(p)) = 1

C25_Witness ==
    \E p \in Procs :
        /\ IsRun(p)
        /\ pc[p] = "done"
        /\ Len(calls[p]) = 3
        /\ calls[p][3] = Call("install_dependencies", NameA, "False")
        /\ Said(p, <<"ERROR: Failed to install dependencies">>)
        /\ child[p].state = "none"

\* invocation q has taken the environment of n as created and goes on with it
UsesEnv(q, n) ==
    /\ local[q].name = n
    /\ pc[q] \in {"install_dependencies", "tool_path", "makedirs", "launch", "wait"}

\* C27: while one invocation is inside the creation of the environment of a
\* tool and that environment is not complete yet, no other invocation installs
\* into that environment or launches the tool with it.
C27_Original ==
    \A p, q \in Procs :
        \A n \in DirNames :
            ( /\ p # q
              /\ pc[p] = "venv_running"
              /\ local[p].name = n
              /\ ~(envs[n].python /\ envs[n].pip) )
            => ~UsesEnv(q, n)

\* the entry point of n exists and its load fails
LoadFails(n) == n \o DotPy \in DOMAIN tools /\ ModuleOf(n).load # "ok"

\* C28: in "update", a tool whose entry point exists but fails to load is
\* among the names given to cleanup_orphaned_files, so its environment and
\* its storage folder stay; no environment is created for it, and the tools
\* that load and declare dependencies are provisioned all the same.
C28_Original ==
    /\ [][\A p \in Procs :
             IsCleanupStep(p) =>
                 \A n \in DirNames :
                     LoadFails(n) => /\ n \in local'[p].subcommand_names
                                     /\ envs'[n] = envs[n]
                                     /\ storage'[n] = storage[n]]_vars
    /\ [](\A p \in Procs :
             ( /\ IsUpdateInvocation(p)
               /\ pc[p] = "done"
               /\ ~Said(p, <<"Traceback", "OSError">>) )
             => \A n \in DirNames :
                    /\ LoadFails(n) => CallsOf(p, "create_environment") \cap
                                          {i \in 1..Len(calls[p]) : calls[p][i].name = n} = {}
                    /\ (ModuleOf(n).load = "ok" /\ DepsOf(n) # <<>>) =>
                          \E i \in CallsOf(p, "create_environment") : calls[p][i].name = n)

\* C26: while the child runs the invocation waits: nothing is relayed and the
\* wait is left only when the child has exited; once the child has exited the
\* invocation relays what the child wrote and ends.
C26_EndsIffChildEnds ==
    /\ [](\A p \in Procs :
             child[p].state = "running" =>
                 /\ pc[p] = "wait"
                 /\ stdout[p] = <<>>
                 /\ ~Said(p, <<"ERROR: Subcommand failed with an error.">>))
    /\ [][\A p \in Procs :
             (pc[p] = "wait" /\ pc'[p] # "wait") => child[p].state = "exited"]_vars
    /\ \A p \in Procs :
          (pc[p] = "wait" /\ child[p].state = "exited")
             ~> (pc[p] = "done" /\ (child[p].code = 0 => stdout[p] # <<>>))

C26_Witness ==
    \E p \in Procs :
        /\ pc[p] = "done"
        /\ child[p].state = "exited"
        /\ child[p].code = 0
        /\ stdout[p] = RelayStdout(child[p].out)
        /\ child[p].out # <<>>

\* the text the tool takes as its input
InputText(t) ==
    IF ReadsArgv(t.name)
    THEN IF Len(t.argv) > 1 THEN t.argv[2] ELSE NoText
    ELSE t.stdin

\* the run of the tool fails: no input, input that is not JSON, no tool
\* folder where one is required, a document without the envelope or without a
\* required field, or an exception in the processing of an item
ToolRunFails(t) ==
    LET text == InputText(t) IN
    \/ text = NoText
    \/ text[1] # "json"
    \/ t.name \in NeedsToolPath /\ ~t.tool_path_set
    \/ Validity(t.name, Tail(text)) # "ok"
    \/ t.fault

\* C23: a bundled tool whose run fails writes the JSON error object to its
\* standard error, nothing to its standard output, and exits non-zero.
C23_Original ==
    (tool.pc = "exit" /\ ToolRunFails(tool)) =>
        /\ tool.err = <<ErrorObject>>
        /\ tool.out = <<>>
        /\ tool.code # 0

\* C24: for every bundled tool that run_subcommand launches, the document
\* main() of the tool is called with is the payload of the invocation.
C24_Original ==
    (tool.pc \in {"main", "exit"} /\ tool.by = "manager") =>
        tool.received = tool.payload

\* C29: combine_audio works on every item whose transition_type is one of the
\* values INPUT_SCHEMA declares with that same value.
C29_Original ==
    combine.pc = "done" =>
        \A k \in 1..Len(combine.given) :
            combine.given[k] \in DeclaredValues =>
                combine.applied[k] = combine.given[k]

\* C30: every turn of the keyframe loop that analyses a frame moves the
\* current frame number forward.
C30_Original ==
    [][(video.pc = "loop" /\ video'.scenes > video.scenes) =>
           video'.current_frame_num > video.current_frame_num]_vars
====
